---- MODULE Spec2Model ----
(***************************************************************************)
(* A model of face_detection.py: the FaceDetection pipeline object, its    *)
(* region list (self.items), its crop list (self.items_frames), the full   *)
(* frame buffer (self.frame), the run prefix (self.images_prefix) and the  *)
(* files it writes into the archive folder.                                *)
(*                                                                         *)
(* Pixels.  An image is FrameW x FrameH pixels.  A loaded frame is kept as *)
(* the decoded test image plus the "ink" drawn on it since: a function     *)
(* from the painted pixels <<col, row>> to their BGR colour.  A numpy      *)
(* slice of the frame is a VIEW: it owns no pixels and shows whatever the  *)
(* frame holds when it is read.  cv2.cvtColor returns a new array that     *)
(* owns its pixels.                                                        *)
(*                                                                         *)
(* Library calls are modelled by what they do on the values the program    *)
(* hands them: cv2.cvtColor and cv2.imwrite raise on an empty array        *)
(* (OpenCV's !_src.empty() and !_img.empty() assertions), and              *)
(* cv2.cvtColor(BGR2GRAY) raises on a one-channel array.  image_path names *)
(* a picture the codec decodes, the constraint the specification puts on   *)
(* it, so self.frame is an array; the archive folder is writable.  The     *)
(* glyphs of cv2.putText are abstracted to the text's bounding box (TextW  *)
(* x TextH, bottom-left corner at the origin given).  debug is False, as   *)
(* in the module's own main.                                               *)
(***************************************************************************)
EXTENDS Integers, Sequences, FiniteSets, TLC

\* ------------------------------------------------------------ bounds
FrameW == 45
FrameH == 27
TextW == 2
TextH == 2
MaxFaces == 2
MaxClock == 1

\* ------------------------------------------------- program constants
LabelDx == 40
LabelDy == 5
LabelEdge == 11
RectThickness == 3
StampX == 5
StampY == 25

Green == <<0, 255, 0>>
Black == <<0, 0, 0>>

AllObjs == {1, 2}

VARIABLES clock, constructed, images_prefix, frame, items, items_frames,
          archive, last

vars == <<clock, constructed, images_prefix, frame, items, items_frames,
          archive, last>>

Max(a, b) == IF a >= b THEN a ELSE b
Min(a, b) == IF a <= b THEN a ELSE b

\* ------------------------------------------------------------ pixels

\* The decoded picture on disk: every pixel a different colour, none of
\* them the green or the black the annotator draws with.
TestImage(c, r) == <<(c * 5) % 256, (r * 7) % 200, 128>>

InFrame(p) == p[1] >= 0 /\ p[1] < FrameW /\ p[2] >= 0 /\ p[2] < FrameH

NoInk == [p \in {} |-> Black]

\* cv2.imread: the decoded picture, nothing drawn on it yet.
imread == [ink |-> NoInk]

PixelAt(fr, c, r) ==
    IF <<c, r>> \in DOMAIN fr.ink THEN fr.ink[<<c, r>>] ELSE TestImage(c, r)

\* Drawing: the pixels of S that lie in the frame take the colour col.
Paint(fr, S, col) ==
    LET T == {p \in S : InFrame(p)}
    IN [fr EXCEPT !.ink = [p \in (DOMAIN fr.ink) \cup T |->
                              IF p \in T THEN col ELSE fr.ink[p]]]

\* cv2.rectangle(img, (x, y), (x + w, y + h), colour, 3): the outline
\* between the two corners (given in any order), RectThickness wide.
RectPixels(x, y, w, h) ==
    LET t  == (RectThickness - 1) \div 2
        xa == Min(x, x + w)
        xb == Max(x, x + w)
        ya == Min(y, y + h)
        yb == Max(y, y + h)
    IN {p \in ((xa - t)..(xb + t)) \X ((ya - t)..(yb + t)) :
          ~(p[1] > xa + t /\ p[1] < xb - t /\ p[2] > ya + t /\ p[2] < yb - t)}

\* cv2.putText(img, text, (ox, oy), ...): org is the text's bottom-left
\* corner.
TextPixels(org) ==
    ((org[1])..(org[1] + TextW - 1)) \X ((org[2] - TextH + 1)..(org[2]))

\* Python's slice start/stop on an axis of length n (step 1).
SliceIndex(i, n) == IF i < 0 THEN Max(i + n, 0) ELSE Min(i, n)

\* self.frame[y:y + h, x:x + w]: a view of the frame, FrameW/FrameH
\* clamped, never an error on an array.
Slice(x, y, w, h) ==
    LET c0 == SliceIndex(x, FrameW)
        c1 == SliceIndex(x + w, FrameW)
        r0 == SliceIndex(y, FrameH)
        r1 == SliceIndex(y + h, FrameH)
    IN [own |-> FALSE, chans |-> 3, c0 |-> c0, r0 |-> r0,
        w |-> Max(c1 - c0, 0), h |-> Max(r1 - r0, 0), px |-> <<>>]

IsEmpty(buf) == buf.w = 0 \/ buf.h = 0

Window(buf) == (0..(buf.w - 1)) \X (0..(buf.h - 1))

\* What a buffer holds when it is read: its own pixels, or, for a view,
\* the pixels of the frame it is a view of.
Pixels(buf, fr) ==
    IF buf.own THEN buf.px
    ELSE [p \in Window(buf) |-> PixelAt(fr, buf.c0 + p[1], buf.r0 + p[2])]

\* cv2.COLOR_BGR2GRAY on one pixel (OpenCV's fixed-point weights).
Gray(bgr) == (bgr[1] * 1868 + bgr[2] * 9617 + bgr[3] * 4899 + 8192) \div 16384

\* Whether cv2.cvtColor(buf, COLOR_BGR2GRAY) raises.
cvtColorRaises(buf) == IsEmpty(buf) \/ buf.chans # 3

\* cv2.cvtColor(buf, COLOR_BGR2GRAY): a new one-channel array.
cvtColor(buf, fr) ==
    [own |-> TRUE, chans |-> 1, c0 |-> 0, r0 |-> 0, w |-> buf.w, h |-> buf.h,
     px |-> [p \in Window(buf) |-> Gray(Pixels(buf, fr)[p])]]

\* ------------------------------------------------------------- clock

\* datetime.datetime.now(): the wall clock, read in whole microseconds.
now(t) == t

\* strftime("%Y%m%d-%H%M%S-%f"): fixed-width fields down to the
\* microsecond, so two instants give the same string exactly when they
\* fall in the same microsecond.
strftime(micros) == <<micros \div 1000000, micros % 1000000>>

\* The call made last: the method, the object, what it was given, whether
\* it raised, and what it handed back (the list returned, the files
\* written, the origin given to cv2.putText).
NoCall == [op |-> "none", o |-> 0, raised |-> FALSE, faces |-> <<>>,
           gray |-> FALSE, x |-> 0, y |-> 0, org |-> <<0, 0>>,
           written |-> <<>>, ret |-> <<>>]

Init ==
    /\ clock = 0
    /\ constructed = {}
    /\ images_prefix = [o \in AllObjs |-> <<0, 0>>]
    /\ frame = [o \in AllObjs |-> imread]
    /\ items = [o \in AllObjs |-> <<>>]
    /\ items_frames = [o \in AllObjs |-> <<>>]
    /\ archive = {}
    /\ last = NoCall

\* The time that may have passed, in microseconds, since the clock was
\* last read: none before the first construction (time is counted from
\* it), up to MaxClock in all.
Elapsed == IF constructed = {} THEN {0} ELSE 0..(MaxClock - clock)

\* FaceDetection.__init__(image_path, archive_folder, debug=False), called
\* when the clock has moved on by dt.
FaceDetection(o, dt) ==
    /\ o \notin constructed
    /\ clock' = clock + dt
    /\ constructed' = constructed \cup {o}
    /\ items' = [items EXCEPT ![o] = <<>>]
    /\ items_frames' = [items_frames EXCEPT ![o] = <<>>]
    /\ images_prefix' = [images_prefix EXCEPT ![o] = strftime(now(clock + dt))]
    /\ frame' = [frame EXCEPT ![o] = imread]
    /\ last' = [NoCall EXCEPT !.op = "__init__", !.o = o]

\* ------------------------------------------------- detection service

\* One face of the service's answer: the four vertices of its bounding
\* polygon, or a polygon with a coordinate missing (x_coordinate is None,
\* so the subtraction of line 69 raises).
Face(v0, v1, v2, v3) == [ok |-> TRUE, vertices |-> <<v0, v1, v2, v3>>]

Upright == Face(<<1, 1>>, <<3, 1>>, <<3, 3>>, <<1, 3>>)
UpsideDown == Face(<<3, 3>>, <<1, 3>>, <<1, 1>>, <<3, 1>>)
Unbounded == [ok |-> FALSE, vertices |-> <<<<1, 1>>, <<3, 1>>, <<3, 3>>, <<1, 3>>>>]

Polygons == {Upright, UpsideDown, Unbounded}

SeqsUpTo(S, n) == UNION {[1..k -> S] : k \in 0..n}

\* The answers of the service: up to MaxFaces faces.  The loop of
\* find_items stops at the first face it raises on and never reads the
\* faces after it, so such a face is taken to be the last of its answer.
Answers ==
    {a \in SeqsUpTo(Polygons, MaxFaces) :
        \A i \in DOMAIN a : ~a[i].ok => i = Len(a)}

\* RegionOf with the opposite corner read from vertex 1.
RegionOf_vertex1(face) ==
    LET x1 == face.vertices[1][1]
        y1 == face.vertices[1][2]
        x2 == face.vertices[2][1]
        y2 == face.vertices[2][2]
    IN <<x1, y1, x2 - x1, y2 - y1>>

\* Lines 63-69: vertex 0 and vertex 2 of the polygon, as (x, y, w, h).
RegionOf(face) ==
    LET x1 == face.vertices[1][1]
        y1 == face.vertices[1][2]
        x2 == face.vertices[3][1]
        y2 == face.vertices[3][2]
    IN <<x1, y1, x2 - x1, y2 - y1>>

\* The loop of lines 62-69 over the faces still to come, acc the local
\* list built so far.
RECURSIVE FacesLoop(_, _)
FacesLoop(faces, acc) ==
    IF faces = <<>> THEN [raised |-> FALSE, items |-> acc]
    ELSE IF ~Head(faces).ok THEN [raised |-> TRUE, items |-> acc]
    ELSE FacesLoop(Tail(faces), Append(acc, RegionOf(Head(faces))))

\* What the world does to one call of find_items: io.open fails (line
\* 55), detect_faces raises (line 60), or the service answers with faces.
Unreadable == [kind |-> "unreadable", faces |-> <<>>]
ServiceError == [kind |-> "service_error", faces |-> <<>>]
Answer(faces) == [kind |-> "answer", faces |-> faces]

Outcomes == {Unreadable, ServiceError} \cup {Answer(a) : a \in Answers}

\* find_items appending to self.items inside the loop: what was built
\* before a face raised stays stored.
find_items_store_partial(old, outcome) ==
    IF outcome.kind # "answer" THEN [raised |-> TRUE, items |-> old]
    ELSE FacesLoop(outcome.faces, <<>>)

\* What find_items leaves in self.items, and whether it raised: old is
\* the list stored before.
find_items_store(old, outcome) ==
    LET faces == outcome.faces IN
    IF outcome.kind # "answer" THEN [raised |-> TRUE, items |-> old]
    ELSE LET r == FacesLoop(faces, <<>>)
         IN IF r.raised THEN [raised |-> TRUE, items |-> old]
            ELSE [raised |-> FALSE, items |-> r.items]

\* FaceDetection.find_items()
find_items(o, outcome) ==
    /\ o \in constructed
    /\ LET r == find_items_store(items[o], outcome)
       IN /\ items' = [items EXCEPT ![o] = r.items]
          /\ last' = [NoCall EXCEPT !.op = "find_items", !.o = o,
                                    !.raised = r.raised,
                                    !.faces = outcome.faces]
    /\ UNCHANGED <<clock, constructed, images_prefix, frame, items_frames>>

\* ------------------------------------------------------------ cropper

\* Lines 96-105: one crop record.
CropOf(f) ==
    [frame |-> Slice(f[1], f[2], f[3], f[4]),
     x |-> f[1], y |-> f[2], w |-> f[3], h |-> f[4]]

\* extract_items_frames appending to the list stored before.
extract_store_appending(fr, regions, old) ==
    [raised |-> FALSE,
     frames |-> old \o [k \in 1..Len(regions) |-> CropOf(regions[k])]]

\* extract_items_frames reading the first region before the loop.
extract_store_first(fr, regions, old) ==
    IF regions = <<>> THEN [raised |-> TRUE, frames |-> old]
    ELSE [raised |-> FALSE,
          frames |-> [k \in 1..Len(regions) |-> CropOf(regions[k])]]

\* What extract_items_frames leaves in self.items_frames, and whether it
\* raised: a slice of an array never raises, so it does not.
extract_store(fr, regions, old) ==
    [raised |-> FALSE,
     frames |-> [k \in 1..Len(regions) |-> CropOf(regions[k])]]

\* FaceDetection.extract_items_frames()
extract_items_frames(o) ==
    /\ o \in constructed
    /\ LET r == extract_store(frame[o], items[o], items_frames[o])
       IN /\ items_frames' = [items_frames EXCEPT ![o] = r.frames]
          /\ last' = [NoCall EXCEPT !.op = "extract_items_frames", !.o = o,
                                    !.raised = r.raised]
    /\ UNCHANGED <<clock, constructed, images_prefix, frame, items>>

\* ------------------------------------------------- grayscale accessor

\* Line 126 on the k-th stored record: its "frame" entry is overwritten.
ToGray(rec, fr) == [rec EXCEPT !.frame = cvtColor(rec.frame, fr)]

\* The loop of lines 125-127 from the k-th record on: stored is the list
\* self.items_frames (its records are changed in place), out the local
\* list returned.
RECURSIVE GrayLoop(_, _, _, _)
GrayLoop(stored, out, k, fr) ==
    IF k > Len(stored) THEN [raised |-> FALSE, frames |-> stored, ret |-> out]
    ELSE IF cvtColorRaises(stored[k].frame)
         THEN [raised |-> TRUE, frames |-> stored, ret |-> <<>>]
    ELSE LET g == ToGray(stored[k], fr)
         IN GrayLoop([stored EXCEPT ![k] = g], Append(out, g), k + 1, fr)

\* What get_items_frames leaves in self.items_frames and returns.
get_items_store(stored, grayscale, fr) ==
    IF ~grayscale THEN [raised |-> FALSE, frames |-> stored, ret |-> stored]
    ELSE GrayLoop(stored, <<>>, 1, fr)

\* FaceDetection.get_items_frames(grayscale)
get_items_frames(o, grayscale) ==
    /\ o \in constructed
    /\ LET r == get_items_store(items_frames[o], grayscale, frame[o])
       IN /\ items_frames' = [items_frames EXCEPT ![o] = r.frames]
          /\ last' = [NoCall EXCEPT !.op = "get_items_frames", !.o = o,
                                    !.raised = r.raised, !.gray = grayscale,
                                    !.ret = r.ret]
    /\ UNCHANGED <<clock, constructed, images_prefix, frame, items>>

\* ---------------------------------------------------------- annotator

\* add_label shifting from y = 11 on.
LabelOrg_ge(x, y) == <<x + LabelDx, IF y >= LabelEdge THEN y - LabelDy ELSE y>>

\* Lines 137-139: where add_label puts the text.
LabelOrg(x, y) == <<x + LabelDx, IF y > LabelEdge THEN y - LabelDy ELSE y>>

\* FaceDetection.add_label(text, x, y)
add_label(o, x, y) ==
    /\ o \in constructed
    /\ frame' = [frame EXCEPT ![o] = Paint(@, TextPixels(LabelOrg(x, y)), Green)]
    /\ last' = [NoCall EXCEPT !.op = "add_label", !.o = o, !.x = x, !.y = y,
                              !.org = LabelOrg(x, y)]
    /\ UNCHANGED <<clock, constructed, images_prefix, items, items_frames>>

\* Lines 161-163: a rectangle around every region, in list order.
RECURSIVE DrawItems(_, _)
DrawItems(fr, regions) ==
    IF regions = <<>> THEN fr
    ELSE LET f == Head(regions)
         IN DrawItems(Paint(fr, RectPixels(f[1], f[2], f[3], f[4]), Green),
                      Tail(regions))

\* Lines 161-167: the frame as archive_with_items leaves it.
Annotate(fr, regions) ==
    Paint(DrawItems(fr, regions), TextPixels(<<StampX, StampY>>), Black)

\* ----------------------------------------------------------- archiver

\* Lines 150 and 175: the file names.
ItemName(prefix, idx) == <<prefix, "item", idx>>
FullName(prefix) == <<prefix, "full", 0>>

\* The loop of lines 148-153 from the k-th crop on, idx the counter of
\* line 146; cv2.imwrite raises on an empty array.
RECURSIVE ArchiveLoop(_, _, _, _, _, _)
ArchiveLoop(frames, k, idx, prefix, fr, log) ==
    IF k > Len(frames) THEN [raised |-> FALSE, written |-> log]
    ELSE IF IsEmpty(frames[k].frame) THEN [raised |-> TRUE, written |-> log]
    ELSE ArchiveLoop(frames, k + 1, idx + 1, prefix, fr,
                     Append(log, [name |-> ItemName(prefix, idx),
                                  data |-> Pixels(frames[k].frame, fr)]))

\* What archive_items_frames writes, and whether it raised.
archive_items_store(frames, prefix, fr) ==
    ArchiveLoop(frames, 1, 0, prefix, fr, <<>>)

Names(log) == {log[i].name : i \in 1..Len(log)}

\* FaceDetection.archive_items_frames()
archive_items_frames(o) ==
    /\ o \in constructed
    /\ LET r == archive_items_store(items_frames[o], images_prefix[o], frame[o])
       IN /\ last' = [NoCall EXCEPT !.op = "archive_items_frames", !.o = o,
                                    !.raised = r.raised, !.written = r.written]
    /\ UNCHANGED <<clock, constructed, images_prefix, frame, items,
                   items_frames>>

\* What archive_with_items leaves in self.frame and writes.
archive_full_store(fr, regions, prefix) ==
    LET a == Annotate(fr, regions)
    IN [raised |-> FALSE, frame |-> a,
        written |-> <<[name |-> FullName(prefix), data |-> a.ink]>>]

\* FaceDetection.archive_with_items()
archive_with_items(o) ==
    /\ o \in constructed
    /\ LET r == archive_full_store(frame[o], items[o], images_prefix[o])
       IN /\ frame' = [frame EXCEPT ![o] = r.frame]
          /\ last' = [NoCall EXCEPT !.op = "archive_with_items", !.o = o,
                                    !.raised = r.raised, !.written = r.written]
    /\ UNCHANGED <<clock, constructed, images_prefix, items, items_frames>>

\* ------------------------------------------------------ specification

\* The archive folder: the files the call made last has written are in
\* it, under the name of the object that wrote them.
Folder == archive' = archive \cup (Names(last'.written) \X {last'.o})

\* One pipeline object, its methods called in any order, on pictures the
\* service answers with any of Answers.  What a call writes is in
\* last.written; the folder's listing is followed in SpecRuns.
Next ==
    \/ \E dt \in Elapsed : FaceDetection(1, dt) /\ UNCHANGED archive
    \/ \E outcome \in Outcomes : find_items(1, outcome) /\ UNCHANGED archive
    \/ extract_items_frames(1) /\ UNCHANGED archive
    \/ \E g \in BOOLEAN : get_items_frames(1, g) /\ UNCHANGED archive
    \/ add_label(1, 0, LabelEdge + 1) /\ UNCHANGED archive
    \/ archive_items_frames(1) /\ UNCHANGED archive
    \/ archive_with_items(1) /\ UNCHANGED archive

Spec == Init /\ [][Next]_vars

\* add_label over a range of positions.
LabelXs == {0 - LabelDx, 0}
LabelYs == {5, LabelEdge, LabelEdge + 1, 50}

NextLabel ==
    \/ \E dt \in Elapsed : FaceDetection(1, dt) /\ UNCHANGED archive
    \/ \E x \in LabelXs, y \in LabelYs : add_label(1, x, y) /\ UNCHANGED archive

SpecLabel == Init /\ [][NextLabel]_vars

\* Two runs archiving into the same folder, each on a picture with one
\* upright face.
OneFace == Answer(<<Upright>>)

NextRuns ==
    \/ \E o \in AllObjs, dt \in Elapsed : FaceDetection(o, dt) /\ Folder
    \/ \E o \in AllObjs : find_items(o, OneFace) /\ Folder
    \/ \E o \in AllObjs : extract_items_frames(o) /\ Folder
    \/ \E o \in AllObjs : archive_items_frames(o) /\ Folder
    \/ \E o \in AllObjs : archive_with_items(o) /\ Folder

SpecRuns == Init /\ [][NextRuns]_vars

\* ------------------------------------------------------------- claims

Coords(rec) == <<rec.x, rec.y, rec.w, rec.h>>

\* The pixels of the k-th crop of object o, as a reader of its buffer
\* sees them now.
CropPixels(o, k) == Pixels(items_frames[o][k].frame, frame[o])

\* C1: immediately after any call to extract_items_frames, whatever list
\* of regions earlier find_items calls have left and whatever crops were
\* stored before, the call has returned, the crop list has as many
\* records as the region list, and the i-th crop carries the i-th
\* region's (x, y, w, h) and the slice of the frame at it: the previous
\* crops are replaced, not appended to.
C1_CropsMatchRegions ==
    last.op = "extract_items_frames" =>
        LET o == last.o IN
        /\ ~last.raised
        /\ Len(items_frames[o]) = Len(items[o])
        /\ \A i \in 1..Len(items[o]) :
              /\ Coords(items_frames[o][i]) = items[o][i]
              /\ items_frames[o][i].frame =
                    Slice(items[o][i][1], items[o][i][2],
                          items[o][i][3], items[o][i][4])

\* extract_items_frames has just run on two different regions.
C1_Witness ==
    /\ last.op = "extract_items_frames"
    /\ Len(items[last.o]) = 2
    /\ items[last.o][1] # items[last.o][2]
    /\ Len(items_frames[last.o]) = 2

\* C2: one call to archive_items_frames on a crop list of n records
\* writes exactly n files, the i-th crop (from 0) under the name
\* <prefix>_item_<i>, in list order; archive_with_items writes exactly one
\* file, <prefix>_full; and the prefix is the one fixed at construction,
\* which no operation on the object changes.
C2_ArchiveNames ==
    [][ LET o == last'.o IN
        /\ last'.op = "archive_items_frames" =>
              /\ Len(last'.written) = Len(items_frames[o])
              /\ \A i \in 1..Len(last'.written) :
                    last'.written[i].name = ItemName(images_prefix[o], i - 1)
        /\ last'.op = "archive_with_items" =>
              /\ Len(last'.written) = 1
              /\ last'.written[1].name = FullName(images_prefix[o])
        /\ o \in constructed => images_prefix'[o] = images_prefix[o]
      ]_vars

C4_EmptyIsNoError ==
    /\ last.op = "extract_items_frames" /\ items[last.o] = <<>> =>
          ~last.raised /\ items_frames[last.o] = <<>>
    /\ last.op = "archive_items_frames" /\ items_frames[last.o] = <<>> =>
          ~last.raised /\ last.written = <<>>

\* extract_items_frames has just run on an empty region list.
C4_Witness ==
    /\ last.op = "extract_items_frames"
    /\ items[last.o] = <<>>
    /\ items_frames[last.o] = <<>>

\* C5: get_items_frames never changes the number, the order or the stored
\* (x, y, w, h) of the crops, and the list it returns is the stored list;
\* with grayscale false no field of any crop changes; with grayscale true
\* on freshly extracted colour crops every crop's buffer becomes
\* single-channel and nothing else in the record changes.
C5_GrayKeepsRecords ==
    [][ last'.op = "get_items_frames" =>
          LET o == last'.o
              old == items_frames[o]
              new == items_frames'[o]
          IN /\ Len(new) = Len(old)
             /\ \A k \in 1..Len(old) : Coords(new[k]) = Coords(old[k])
             /\ ~last'.raised => last'.ret = new
             /\ ~last'.gray => new = old
             /\ (last'.gray /\ \A k \in 1..Len(old) : ~old[k].frame.own) =>
                   \A k \in 1..Len(old) :
                      /\ new[k].frame.chans = 1
                      /\ [new[k] EXCEPT !.frame = old[k].frame] = old[k]
      ]_vars

\* C6: add_label(text, x, y) draws the text at (x + 40, y - 5) when
\* y > 11 and at (x + 40, y) when y <= 11, so y = 11 is not shifted and
\* y = 12 is drawn at 7; the text's pixels in the frame are green.
C6_LabelOrigin ==
    last.op = "add_label" =>
        /\ last.org = <<last.x + 40, IF last.y > 11 THEN last.y - 5 ELSE last.y>>
        /\ \A p \in TextPixels(last.org) :
              InFrame(p) => PixelAt(frame[last.o], p[1], p[2]) = Green

\* add_label has just drawn a label given at y = 12, at row 7.
C6_Witness ==
    /\ last.op = "add_label"
    /\ last.y = 12
    /\ last.org[2] = 7
    /\ PixelAt(frame[last.o], last.org[1], 7) = Green

\* C7: any two pipeline objects have different run prefixes, so no file
\* written by one into the archive folder has the name of a file written
\* by the other.
C7_PrefixUnique ==
    \A o1 \in constructed, o2 \in constructed :
        o1 # o2 =>
            /\ images_prefix[o1] # images_prefix[o2]
            /\ \A f1 \in archive, f2 \in archive :
                  f1[2] = o1 /\ f2[2] = o2 => f1[1] # f2[1]

\* C8: every region of the stored region list has x >= 0, y >= 0,
\* width > 0 and height > 0, whatever polygons the service has returned.
C8_RegionsWellFormed ==
    \A o \in constructed :
        \A k \in 1..Len(items[o]) :
            /\ items[o][k][1] >= 0
            /\ items[o][k][2] >= 0
            /\ items[o][k][3] > 0
            /\ items[o][k][4] > 0

\* C9: a find_items that fails (the file cannot be read, the service call
\* raises, or a face of the answer cannot be turned into a region) leaves
\* the stored region list, the crop list and the frame buffer exactly as
\* they were before the call: no partial list of regions is stored.
C9_FailureKeepsState ==
    [][ last'.op = "find_items" /\ last'.raised =>
          /\ items' = items
          /\ items_frames' = items_frames
          /\ frame' = frame
          /\ images_prefix' = images_prefix
      ]_vars

\* find_items has just failed on the second face of an answer, on an
\* object that had regions stored.
C9_Witness ==
    /\ last.op = "find_items"
    /\ last.raised
    /\ Len(last.faces) = 2
    /\ items[last.o] # <<>>

\* C10: add_label and archive_with_items change only the full-frame
\* buffer: every crop's pixels, colour or converted to gray, are after the
\* call what they were before it.
C10_AnnotationKeepsCrops ==
    [][ last'.op \in {"add_label", "archive_with_items"} =>
          LET o == last'.o IN
          \A k \in 1..Len(items_frames[o]) :
              Pixels(items_frames'[o][k].frame, frame'[o]) = CropPixels(o, k)
      ]_vars
====
